---------------------------- MODULE Spec2Model ----------------------------
(***************************************************************************)
(* A model of usb_watchdog.py: the USBWatchDog device session over a HID   *)
(* transport, the action handlers and main().                              *)
(*                                                                         *)
(* One behaviour is one invocation of the script.  The command line        *)
(* (args.action and the argparse Namespace of that subcommand), the        *)
(* device's feature reports and the input reports it will deliver are      *)
(* drawn in Init; the outcome of every transport call (full answer, short  *)
(* answer, timeout, wrong written length) is drawn when the call is made.  *)
(*                                                                         *)
(* SpecSession is the class by itself: a behaviour is a sequence of calls  *)
(* of the public methods of one USBWatchDog object by some other caller.   *)
(***************************************************************************)
EXTENDS Integers, Sequences, FiniteSets, TLC

VARIABLES
    action,        \* args.action, the subcommand
    args,          \* the argparse Namespace: attribute name -> value
    pc,            \* where main() / the running handler stands
    cfg_i,         \* next statement of general_configure / print_settings
    watchdog,      \* main's local `watchdog`: "None" or "obj"
    h,             \* USBWatchDog._h: "None" or "open"
    dev,           \* the device: feature report id -> payload bytes
    in_queue,      \* input reports the transport will deliver, oldest first
    log,           \* every transport call issued so far, in order
    status,        \* what the handler's get_status() returned; None before
    sleeps,        \* the number of time.sleep calls made
    exc,           \* the exception in flight (type, error_number)
    raised,        \* history: the exception that ended the handler or the open
    error_number,  \* main's local error_number; Unset before assignment
    exit_code,     \* the process exit status; Unset while running
    client,        \* who uses the session: main(), or a caller of one family
                   \* of the public methods
    call           \* the last public method such a caller called, and its result

vars == <<action, args, pc, cfg_i, watchdog, h, dev, in_queue, log, status,
          sleeps, exc, raised, error_number, exit_code, client, call>>

---------------------------------------------------------------------------
(* Bounds of the model *)

\* At most this many settings are given on the command line.
MaxDelta == 2
\* The continuous loop is followed for at most this many sleeps.
MaxSleeps == 2

---------------------------------------------------------------------------
(* Class constants of USBWatchDog *)

FR_VERSION == 1
FR_VERSION_LEN == 2
FR_SERIAL_NUMBER == 2
FR_SERIAL_NUMBER_LEN == 20
FR_NONVOLATILE_TIMEOUT == 3
FR_NONVOLATILE_TIMEOUT_LEN == 2
FR_VOLATILE_TIMEOUT == 4
FR_VOLATILE_TIMEOUT_LEN == 2
FR_NONVOLATILE_PINGLIGHT_BUZZER == 5
FR_NONVOLATILE_PINGLIGHT_BUZZER_LEN == 1
FR_VOLATILE_PINGLIGHT_BUZZER == 6
FR_VOLATILE_PINGLIGHT_BUZZER_LEN == 1
PINGLIGHT_BIT == 1
BUZZER_BIT == 2
FR_NONVOLATILE_BUZZER_FREQUENCY == 7
FR_NONVOLATILE_BUZZER_FREQUENCY_LEN == 1
FR_VOLATILE_BUZZER_FREQUENCY == 8
FR_VOLATILE_BUZZER_FREQUENCY_LEN == 1
FR_REBOOT_INDICATOR == 9
FR_REBOOT_INDICATOR_LEN == 1
FR_NONVOLATILE_BEACON_MODE == 10
FR_NONVOLATILE_BEACON_MODE_LEN == 1
IN_WATCHDOG_STATUS == 1
IN_WATCHDOG_STATUS_LEN == 3
WATCHDOG_IN_TIMEOUT_BIT == 1
WATCHDOG_IN_REBOOT_BIT == 2
WATCHDOG_IN_NONVOLATILE_BEACON_MODE_BIT == 4
OUT_PET_WATCHDOG == 1
OUT_PET_WATCHDOG_LEN == 1
WATCHDOG_OUT_TIMEOUT_BIT == 1
WATCHDOG_OUT_CLEARALARM_BIT == 2

\* 2**16 - 1 and 2**8 - 1, the limits the setters and the argument checks use
UINT16_MAX == 65535
UINT8_MAX == 255
\* the lower limit of check_frequency
FREQUENCY_MIN == 42
\* get_status(self, timeout=2000)
DEFAULT_TIMEOUT == 2000

---------------------------------------------------------------------------
(* Python values *)

None == <<>>
Some(v) == <<v>>
Unset == -1

\* x & bit, as a truth value, for a single-bit mask
BitAnd(x, bit) == IF (x \div bit) % 2 = 1 THEN bit ELSE 0

NoException == [type |-> "none", error_number |-> Unset]
USBWatchDogError(n) == [type |-> "USBWatchDogError", error_number |-> n]
KeyboardInterrupt == [type |-> "KeyboardInterrupt", error_number |-> Unset]
AttributeError == [type |-> "AttributeError", error_number |-> Unset]
SystemExit(n) == [type |-> "SystemExit", error_number |-> n]

---------------------------------------------------------------------------
(* The HID transport (the hid module), as the session sees it.             *)
(* A session state s is [h, dev, in_queue, log]; every call appends itself *)
(* to s.log.  The last parameter of each call is the outcome the transport *)
(* produces for it.                                                        *)

GetOutcomes == {"exact", "extra", "short"}
SendOutcomes == {"sent", "failed"}
ReadOutcomes == {"report", "short", "timeout"}
WriteOutcomes == {"written", "failed"}

\* A logged transport call: its name, its arguments, and whether the session
\* accepted what the transport answered.
Call(name, data, ok) == [op |-> name, data |-> data, ok |-> ok]
Logged(s, name, data, ok) == [s EXCEPT !.log = Append(@, Call(name, data, ok))]

\* self._h.get_feature_report(fr_id, max_len): the report id, then the payload.
\* "extra" is the trailing byte hidapi appends on Windows, "short" a truncated answer.
hid_get_feature_report(s, fr_id, max_len, g) ==
    LET full == <<fr_id>> \o s.dev[fr_id]
    IN CASE g = "exact" -> full
         [] g = "extra" -> full \o <<0>>
         [] g = "short" -> SubSeq(full, 1, Len(full) - 1)

\* self._h.send_feature_report(array): the number of bytes sent, -1 on failure.
\* A report that was sent is the device's new value of that report.
hid_send_feature_report(s, array, w) ==
    IF w = "sent"
    THEN [length |-> Len(array), s |-> [s EXCEPT !.dev[Head(array)] = Tail(array)]]
    ELSE [length |-> -1, s |-> s]

\* self._h.read(length, timeout): the oldest pending input report, or [] when
\* none arrives within the timeout (r says whether one arrives in time).
hid_read(s, length, timeout, r) ==
    IF r = "timeout" \/ s.in_queue = <<>>
    THEN [array |-> <<>>, s |-> s]
    ELSE LET report == Head(s.in_queue)
             n == IF r = "short" THEN Len(report) - 1 ELSE Len(report)
         IN [array |-> SubSeq(report, 1, IF n < length THEN n ELSE length),
             s |-> [s EXCEPT !.in_queue = Tail(@)]]

\* self._h.write(array): the number of bytes written, -1 on failure.
hid_write(s, array, w) == IF w = "written" THEN Len(array) ELSE -1

---------------------------------------------------------------------------
(* class USBWatchDog.  A call returns [raised, val, s]: the exception it   *)
(* raised ("none" when it returned), its value and the session afterwards. *)

Returned(v, s) == [raised |-> "none", msg |-> "", val |-> v, s |-> s]
Raised(e, s) == [raised |-> e, msg |-> "", val |-> None, s |-> s]
\* raise e(msg), for the exceptions the claims tell apart by their message
RaisedMsg(e, msg, s) == [raised |-> e, msg |-> msg, val |-> None, s |-> s]

\* __check_open: TRUE when it raises IOError
check_open(s) == s.h = "None"
\* raise IOError('USB Watchdog not open')
NotOpen(s) == RaisedMsg("IOError", "USB Watchdog not open", s)

\* Mutant: the bytes are taken high byte first.
to_uint16_big_endian(array) == array[1] * 256 + array[2]

to_uint16(array) == array[2] * 256 + array[1]

\* __from_uint16 raises ValueError above 2**16 - 1
from_uint16_raises(val) == val > UINT16_MAX
from_uint16(val) == <<val % 256, val \div 256>>

get_feature_report(s, fr_id, length, g) ==
    IF check_open(s) THEN NotOpen(s)
    ELSE LET array == hid_get_feature_report(s, fr_id, length + 1, g)
             ok == ~(Len(array) < length + 1)
             s1 == Logged(s, "get_feature_report", <<fr_id, length + 1>>, ok)
         IN IF ~ok
            THEN RaisedMsg("ValueError", "received unexpected value", s1)
            ELSE Returned(SubSeq(array, 2, length + 1), s1)

\* Mutant: the length the transport reports is not compared with len(array).
send_feature_report_unchecked(s, array, w) ==
    IF check_open(s) THEN NotOpen(s)
    ELSE LET sent == hid_send_feature_report(s, array, w)
             ok == ~(Len(array) # sent.length)
         IN Returned(None, Logged(sent.s, "send_feature_report", array, ok))

send_feature_report(s, array, w) ==
    IF check_open(s) THEN NotOpen(s)
    ELSE LET sent == hid_send_feature_report(s, array, w)
             ok == ~(Len(array) # sent.length)
             s1 == Logged(sent.s, "send_feature_report", array, ok)
         IN IF ~ok
            THEN RaisedMsg("IOError", "data send failed", s1)
            ELSE Returned(None, s1)

read_input(s, length, timeout, r) ==
    IF check_open(s) THEN NotOpen(s)
    ELSE LET got == hid_read(s, length, timeout, r)
             ok == ~(Len(got.array) # length)
             s1 == Logged(got.s, "read", <<length, timeout>>, ok)
         IN IF ~ok
            THEN RaisedMsg("ValueError", "received unexpected value", s1)
            ELSE Returned(got.array, s1)

\* the body shared by __get_nonvolatile_lights_buzzer and __get_volatile_lights_buzzer
get_lights_buzzer(s, fr_id, length, g) ==
    LET got == get_feature_report(s, fr_id, length, g)
    IN IF got.raised # "none" THEN got ELSE Returned(got.val[1], got.s)

get_nonvolatile_lights_buzzer(s, g) ==
    get_lights_buzzer(s, FR_NONVOLATILE_PINGLIGHT_BUZZER,
                      FR_NONVOLATILE_PINGLIGHT_BUZZER_LEN, g)

get_volatile_lights_buzzer(s, g) ==
    get_lights_buzzer(s, FR_VOLATILE_PINGLIGHT_BUZZER,
                      FR_VOLATILE_PINGLIGHT_BUZZER_LEN, g)

\* Mutant: a blind overwrite, the bit not given is written as 0.
set_pinglight_buzzer_blind(got, fr_id, pinglight, buzzer, w) ==
    LET p == IF pinglight = Some(TRUE) THEN PINGLIGHT_BIT ELSE 0
        b == IF buzzer = Some(TRUE) THEN BUZZER_BIT ELSE 0
    IN IF got.raised # "none" THEN got
       ELSE send_feature_report(got.s, <<fr_id, p + b>>, w)

\* the body shared by __set_nonvolatile_pinglight_buzzer and
\* __set_volatile_pinglight_buzzer, after the read of the current byte (got):
\* pinglight and buzzer are None (keep the bit just read) or Some(TRUE/FALSE)
set_pinglight_buzzer(got, fr_id, pinglight, buzzer, w) ==
    LET val == got.val
        p == IF pinglight = None THEN BitAnd(val, PINGLIGHT_BIT)
             ELSE IF pinglight = Some(TRUE) THEN PINGLIGHT_BIT ELSE 0
        b == IF buzzer = None THEN BitAnd(val, BUZZER_BIT)
             ELSE IF buzzer = Some(TRUE) THEN BUZZER_BIT ELSE 0
    IN IF got.raised # "none" THEN got
       ELSE send_feature_report(got.s, <<fr_id, p + b>>, w)

update_watchdog(s, timeout_bit, clear_alarm_bit, w) ==
    IF check_open(s) THEN NotOpen(s)
    ELSE LET val == (IF timeout_bit THEN WATCHDOG_OUT_TIMEOUT_BIT ELSE 0)
                    + (IF clear_alarm_bit THEN WATCHDOG_OUT_CLEARALARM_BIT ELSE 0)
             array == <<OUT_PET_WATCHDOG, val>>
             length == hid_write(s, array, w)
             ok == ~(OUT_PET_WATCHDOG_LEN + 1 # length)
             s1 == Logged(s, "write", array, ok)
         IN IF ~ok
            THEN RaisedMsg("ValueError", "encountered unexpected error", s1)
            ELSE Returned(None, s1)


\* Mutant: the handle is dropped without self._h.close().
close_without_release(s) ==
    IF check_open(s) THEN NotOpen(s)
    ELSE Returned(None, [s EXCEPT !.h = "None"])

\* close(): raises IOError when not open
close(s) ==
    IF check_open(s) THEN NotOpen(s)
    ELSE Returned(None, [Logged(s, "close", <<>>, TRUE) EXCEPT !.h = "None"])

set_nonvolatile_pinglight_buzzer(s, pinglight, buzzer, g, w) ==
    set_pinglight_buzzer(get_nonvolatile_lights_buzzer(s, g),
                         FR_NONVOLATILE_PINGLIGHT_BUZZER, pinglight, buzzer, w)

set_volatile_pinglight_buzzer(s, pinglight, buzzer, g, w) ==
    set_pinglight_buzzer(get_volatile_lights_buzzer(s, g),
                         FR_VOLATILE_PINGLIGHT_BUZZER, pinglight, buzzer, w)

\* The typed getters: each is one get_feature_report and a decoding.
Decoded(got, v) == IF got.raised # "none" THEN got ELSE Returned(v, got.s)

get_version(s, g) ==
    get_feature_report(s, FR_VERSION, FR_VERSION_LEN, g)

get_serial_number(s, g) ==
    get_feature_report(s, FR_SERIAL_NUMBER, FR_SERIAL_NUMBER_LEN, g)

get_nonvolatile_timeout(s, g) ==
    LET got == get_feature_report(s, FR_NONVOLATILE_TIMEOUT, FR_NONVOLATILE_TIMEOUT_LEN, g)
    IN Decoded(got, to_uint16(got.val))

get_volatile_timeout(s, g) ==
    LET got == get_feature_report(s, FR_VOLATILE_TIMEOUT, FR_VOLATILE_TIMEOUT_LEN, g)
    IN Decoded(got, to_uint16(got.val))

get_nonvolatile_pinglight(s, g) ==
    LET got == get_nonvolatile_lights_buzzer(s, g)
    IN Decoded(got, BitAnd(got.val, PINGLIGHT_BIT) # 0)

get_nonvolatile_buzzer(s, g) ==
    LET got == get_nonvolatile_lights_buzzer(s, g)
    IN Decoded(got, BitAnd(got.val, BUZZER_BIT) # 0)

get_volatile_pinglight(s, g) ==
    LET got == get_volatile_lights_buzzer(s, g)
    IN Decoded(got, BitAnd(got.val, PINGLIGHT_BIT) # 0)

get_volatile_buzzer(s, g) ==
    LET got == get_volatile_lights_buzzer(s, g)
    IN Decoded(got, BitAnd(got.val, BUZZER_BIT) # 0)

get_nonvolatile_buzzer_frequency(s, g) ==
    LET got == get_feature_report(s, FR_NONVOLATILE_BUZZER_FREQUENCY,
                                  FR_NONVOLATILE_BUZZER_FREQUENCY_LEN, g)
    IN Decoded(got, got.val[1])

get_volatile_buzzer_frequency(s, g) ==
    LET got == get_feature_report(s, FR_VOLATILE_BUZZER_FREQUENCY,
                                  FR_VOLATILE_BUZZER_FREQUENCY_LEN, g)
    IN Decoded(got, got.val[1])

get_reboot_indicator(s, g) ==
    LET got == get_feature_report(s, FR_REBOOT_INDICATOR, FR_REBOOT_INDICATOR_LEN, g)
    IN Decoded(got, got.val[1] # 0)

get_nonvolatile_beacon_mode(s, g) ==
    LET got == get_feature_report(s, FR_NONVOLATILE_BEACON_MODE,
                                  FR_NONVOLATILE_BEACON_MODE_LEN, g)
    IN Decoded(got, got.val[1] # 0)

\* Strings are sequences of character codes (ord and chr between a str and a
\* list of byte values).  SERIAL_NUMBER_LEN characters '0':
SERIAL_NUMBER_LEN == 20
UnsetSerialNumber == [i \in 1..SERIAL_NUMBER_LEN |-> 48]

\* re.match('^[\w-]+$', string) is not None, for a byte string: one or more
\* of [a-zA-Z0-9_] and '-', then the end of the string or the newline that
\* ends it ('$' also matches just before a trailing newline).
WordCharacters == (48..57) \cup (65..90) \cup (97..122) \cup {95}
re_match(string) ==
    LET n == Len(string)
        body == IF n >= 1 /\ string[n] = 10 THEN SubSeq(string, 1, n - 1)
                ELSE string
    IN /\ Len(body) >= 1
       /\ \A i \in DOMAIN body : body[i] \in WordCharacters \cup {45}

set_serial_number(s, string, g, w) ==
    LET got == get_serial_number(s, g)
    IN IF got.raised # "none" THEN got
       ELSE IF got.val # UnsetSerialNumber
       THEN RaisedMsg("ValueError", "Serial number is already set", got.s)
       ELSE IF ~re_match(string)
       THEN RaisedMsg("ValueError", "Serial number must be alphanumeric", got.s)
       ELSE IF Len(string) # SERIAL_NUMBER_LEN
       THEN RaisedMsg("ValueError", "Serial number must be characters long", got.s)
       ELSE send_feature_report(got.s, <<FR_SERIAL_NUMBER>> \o string, w)

\* Mutant: the report is sent before the value is checked.
set_nonvolatile_timeout_send_first(s, val, w) ==
    LET sent == send_feature_report(s, <<FR_NONVOLATILE_TIMEOUT>> \o from_uint16(val), w)
    IN IF from_uint16_raises(val)
       THEN RaisedMsg("ValueError", "Timeout value is too large", sent.s)
       ELSE sent

\* The typed setters.
set_nonvolatile_timeout(s, val, w) ==
    IF from_uint16_raises(val)
    THEN RaisedMsg("ValueError", "Timeout value is too large", s)
    ELSE send_feature_report(s, <<FR_NONVOLATILE_TIMEOUT>> \o from_uint16(val), w)

set_volatile_timeout(s, val, w) ==
    IF from_uint16_raises(val)
    THEN RaisedMsg("ValueError", "Timeout value is too large", s)
    ELSE send_feature_report(s, <<FR_VOLATILE_TIMEOUT>> \o from_uint16(val), w)

set_nonvolatile_pinglight(s, val, g, w) ==
    set_nonvolatile_pinglight_buzzer(s, Some(val), None, g, w)

set_nonvolatile_buzzer(s, val, g, w) ==
    set_nonvolatile_pinglight_buzzer(s, None, Some(val), g, w)

set_volatile_pinglight(s, val, g, w) ==
    set_volatile_pinglight_buzzer(s, Some(val), None, g, w)

set_volatile_buzzer(s, val, g, w) ==
    set_volatile_pinglight_buzzer(s, None, Some(val), g, w)

set_nonvolatile_buzzer_frequency(s, val, w) ==
    IF val > UINT8_MAX
    THEN RaisedMsg("ValueError", "Frequency value is too large", s)
    ELSE send_feature_report(s, <<FR_NONVOLATILE_BUZZER_FREQUENCY, val>>, w)

set_volatile_buzzer_frequency(s, val, w) ==
    IF val > UINT8_MAX
    THEN RaisedMsg("ValueError", "Frequency value is too large", s)
    ELSE send_feature_report(s, <<FR_VOLATILE_BUZZER_FREQUENCY, val>>, w)

set_reboot_indicator(s, w) ==
    send_feature_report(s, <<FR_REBOOT_INDICATOR, 1>>, w)

set_nonvolatile_beacon_mode(s, val, w) ==
    send_feature_report(s, <<FR_NONVOLATILE_BEACON_MODE, IF val THEN 1 ELSE 0>>, w)

\* get_status: two reads of the input report, the second one decoded
StatusOf(array) ==
    [triggered |-> BitAnd(array[2], WATCHDOG_IN_TIMEOUT_BIT) # 0,
     reboot_indicator |-> BitAnd(array[2], WATCHDOG_IN_REBOOT_BIT) # 0,
     beacon_mode |-> BitAnd(array[2], WATCHDOG_IN_NONVOLATILE_BEACON_MODE_BIT) # 0,
     counter |-> to_uint16(SubSeq(array, 3, Len(array)))]

\* Mutant: the first sample is decoded, the second read only flushes.
get_status_first_sample(s, timeout, r1, r2) ==
    LET first == read_input(s, IN_WATCHDOG_STATUS_LEN + 1, timeout, r1)
        second == read_input(first.s, IN_WATCHDOG_STATUS_LEN + 1, timeout, r2)
    IN IF first.raised # "none" THEN first
       ELSE IF second.raised # "none" THEN second
       ELSE Returned(StatusOf(first.val), second.s)

\* Mutant: a status read that also acknowledges, by an output report.
get_status_and_pet(s, timeout, r1, r2) ==
    LET first == read_input(s, IN_WATCHDOG_STATUS_LEN + 1, timeout, r1)
        second == read_input(first.s, IN_WATCHDOG_STATUS_LEN + 1, timeout, r2)
        wrote == update_watchdog(second.s, TRUE, TRUE, "written")
    IN IF first.raised # "none" THEN first
       ELSE IF second.raised # "none" THEN second
       ELSE Returned(StatusOf(second.val), wrote.s)

get_status(s, timeout, r1, r2) ==
    LET first == read_input(s, IN_WATCHDOG_STATUS_LEN + 1, timeout, r1)
        second == read_input(first.s, IN_WATCHDOG_STATUS_LEN + 1, timeout, r2)
    IN IF first.raised # "none" THEN first
       ELSE IF second.raised # "none" THEN second
       ELSE Returned(StatusOf(second.val), second.s)

\* pet(clear_alarm=True) passes clear_alarm_bit=True whatever its argument is
pet(s, clear_alarm, w) == update_watchdog(s, TRUE, TRUE, w)

set_beacon_state(s, triggered, w) == update_watchdog(s, triggered, TRUE, w)

---------------------------------------------------------------------------
(* The command line: the subparsers and the attributes each one defines.   *)
(* --serial-number and --verbose only select the device to open and what   *)
(* is printed (vprint evaluates its arguments whether verbose or not).     *)

Actions == {"configure", "oneshot", "continuous", "rebooted", "triggered",
            "mode", "beacon"}

watchdog_settings_parser == {"nonvolatile_timeout", "timeout"}
settings_parser ==
    {"nonvolatile_pinglight", "nonvolatile_buzzer", "pinglight", "buzzer",
     "nonvolatile_buzzer_frequency", "buzzer_frequency", "clear_reboot_indicator"}
nonvolatile_mode_setting_parser == {"nonvolatile_beacon_mode"}
pet_parser == {"detect_reboot", "detect_triggered"}

\* The attributes of the Namespace that parse_args() returns for a subcommand:
\* those of the subparser's parents and of its own arguments, and no others.
ArgNames(act) ==
    CASE act = "configure" ->
            settings_parser \cup watchdog_settings_parser
                \cup nonvolatile_mode_setting_parser
      [] act = "oneshot" ->
            watchdog_settings_parser \cup settings_parser \cup pet_parser
      [] act = "continuous" ->
            watchdog_settings_parser \cup settings_parser \cup pet_parser
                \cup {"pet_interval"}
      [] act = "beacon" -> settings_parser \cup {"beacon_state"}
      [] OTHER -> {}

TimeoutArgs == {"nonvolatile_timeout", "timeout"}
FrequencyArgs == {"nonvolatile_buzzer_frequency", "buzzer_frequency"}
OnOffArgs == {"nonvolatile_pinglight", "nonvolatile_buzzer", "pinglight", "buzzer",
              "nonvolatile_beacon_mode"}
FlagArgs == {"clear_reboot_indicator", "detect_reboot", "detect_triggered"}
\* the arguments general_configure applies
SettingArgs == TimeoutArgs \cup FrequencyArgs \cup OnOffArgs \cup {"clear_reboot_indicator"}

\* check_timeout and check_frequency: the values argparse lets through
check_timeout(ivalue) == ~(ivalue = 0 \/ ivalue > UINT16_MAX)
check_frequency(ivalue) == ~(ivalue < FREQUENCY_MIN \/ ivalue > UINT8_MAX)

\* the values tried for --timeout / --nonvolatile-timeout and the frequencies
TimeoutValues == {v \in {0, 300, UINT16_MAX + 1} : check_timeout(v)}
FrequencyValues == {v \in {FREQUENCY_MIN - 1, 100, UINT8_MAX + 1} : check_frequency(v)}

\* The arguments general_configure applies that subcommand act accepts and its
\* handler reads (handle_beacon_action reads none of the settings it accepts).
AppliedArgs(act) ==
    IF act \in {"configure", "oneshot", "continuous"}
    THEN SettingArgs \cap ArgNames(act) ELSE {}

\* The Namespace of subcommand act in which the settings of `given` are passed
\* with the on/off choices onoff, the detect flags of `flags`, and beacon state bs.
Namespace(act, given, tv, fv, onoff, flags, bs) ==
    [n \in ArgNames(act) |->
        IF n = "clear_reboot_indicator" THEN n \in given
        ELSE IF n \in FlagArgs THEN n \in flags
        ELSE IF n = "pet_interval" THEN Some(1)
        ELSE IF n = "beacon_state" THEN Some(bs)
        ELSE IF n \notin given THEN None
        ELSE IF n \in TimeoutArgs THEN Some(tv)
        ELSE IF n \in FrequencyArgs THEN Some(fv)
        ELSE Some(onoff[n])]

---------------------------------------------------------------------------
(* The device as the script finds it *)

\* the feature reports of a device whose ping-light/buzzer bytes are nv and v
Device(nv, v, reboot, beacon) ==
    (FR_VERSION :> <<1, 0>>)
    @@ (FR_SERIAL_NUMBER :> [i \in 1..FR_SERIAL_NUMBER_LEN |-> 48])
    @@ (FR_NONVOLATILE_TIMEOUT :> from_uint16(300))
    @@ (FR_VOLATILE_TIMEOUT :> from_uint16(300))
    @@ (FR_NONVOLATILE_PINGLIGHT_BUZZER :> <<nv>>)
    @@ (FR_VOLATILE_PINGLIGHT_BUZZER :> <<v>>)
    @@ (FR_NONVOLATILE_BUZZER_FREQUENCY :> <<100>>)
    @@ (FR_VOLATILE_BUZZER_FREQUENCY :> <<100>>)
    @@ (FR_REBOOT_INDICATOR :> <<reboot>>)
    @@ (FR_NONVOLATILE_BEACON_MODE :> <<beacon>>)

\* an input report: report id, status flags, the counter (little endian)
InputReport(flags) == <<IN_WATCHDOG_STATUS, flags>> \o from_uint16(513)
StatusFlags == 0..7

Session == [h |-> h, dev |-> dev, in_queue |-> in_queue, log |-> log]

\* The record of a public method called on the session by a caller other
\* than main(): its name, its argument (None when it has none), the exception
\* it raised with its message, its value, the session before the call, the
\* call before it and the number of calls so far.
NoCall ==
    [name |-> "none", arg |-> None, raised |-> "none", msg |-> "", val |-> None,
     before |-> None, prev |-> None, n |-> 0]

Init ==
    /\ action \in Actions
    /\ \E given \in SUBSET AppliedArgs(action) :
          /\ Cardinality(given) <= MaxDelta
          /\ \E tv \in TimeoutValues, fv \in FrequencyValues,
                onoff \in [given \cap OnOffArgs -> {"on", "off"}],
                flags \in SUBSET (pet_parser \cap ArgNames(action)),
                bs \in (IF action = "beacon" THEN {"on", "off"} ELSE {"on"}) :
                args = Namespace(action, given, tv, fv, onoff, flags, bs)
    /\ pc = "open"
    /\ cfg_i = 1
    /\ watchdog = "None"
    /\ h = "None"
    /\ dev = Device(1, 2, 1, 0)
    \* the stale report differs from the fresh one in every status bit
    /\ \E fresh \in StatusFlags :
          in_queue = <<InputReport(7 - fresh), InputReport(fresh)>>
    /\ log = <<>>
    /\ status = None
    /\ sleeps = 0
    /\ exc = NoException
    /\ raised = NoException
    /\ error_number = Unset
    /\ exit_code = Unset
    /\ client = "main"
    /\ call = NoCall

---------------------------------------------------------------------------
(* Steps shared by the handlers *)

\* the session after a call becomes the state
Commit(s) ==
    /\ h' = s.h
    /\ dev' = s.dev
    /\ in_queue' = s.in_queue
    /\ log' = s.log

\* `raise e` inside a handler: control passes to the except clauses of main
Raise(e) == exc' = e /\ raised' = e /\ pc' = "unwind"
\* the handler returns to main
Return == exc' = NoException /\ pc' = "unwind" /\ UNCHANGED raised

\* True if args.x == 'on' else False
IsOn(v) == v = Some("on")

\* the handler main() dispatches to, by its first statement
Dispatch(act) ==
    CASE act \in {"configure", "oneshot", "continuous"} -> "general_configure"
      [] act = "rebooted" -> "handle_rebooted"
      [] act = "triggered" -> "handle_triggered"
      [] act = "mode" -> "handle_mode"
      [] act = "beacon" -> "handle_beacon"

---------------------------------------------------------------------------
(* general_configure(watchdog): one `if` statement per step *)

ConfigureOrder ==
    <<"nonvolatile_timeout", "timeout", "nonvolatile_pinglight", "pinglight",
      "nonvolatile_buzzer", "buzzer", "nonvolatile_buzzer_frequency",
      "buzzer_frequency", "nonvolatile_beacon_mode", "clear_reboot_indicator">>

\* the condition of the `if`: `args.n is not None`, or `args.n` for the flag
Requested(n) ==
    IF n = "clear_reboot_indicator" THEN args[n] ELSE args[n] # None

\* the setter the `if` statement of argument n calls
ApplySetting(s, n, g, w) ==
    CASE n = "nonvolatile_timeout" -> set_nonvolatile_timeout(s, args[n][1], w)
      [] n = "timeout" -> set_volatile_timeout(s, args[n][1], w)
      [] n = "nonvolatile_pinglight" -> set_nonvolatile_pinglight(s, IsOn(args[n]), g, w)
      [] n = "pinglight" -> set_volatile_pinglight(s, IsOn(args[n]), g, w)
      [] n = "nonvolatile_buzzer" -> set_nonvolatile_buzzer(s, IsOn(args[n]), g, w)
      [] n = "buzzer" -> set_volatile_buzzer(s, IsOn(args[n]), g, w)
      [] n = "nonvolatile_buzzer_frequency" ->
            set_nonvolatile_buzzer_frequency(s, args[n][1], w)
      [] n = "buzzer_frequency" -> set_volatile_buzzer_frequency(s, args[n][1], w)
      [] n = "nonvolatile_beacon_mode" -> set_nonvolatile_beacon_mode(s, IsOn(args[n]), w)
      [] n = "clear_reboot_indicator" -> set_reboot_indicator(s, w)

\* The `if` statements from the i-th on whose condition is false; evaluating
\* them changes nothing, so a step runs through them to the next statement
\* that raises or calls a setter.
RECURSIVE NextStatement(_)
NextStatement(i) ==
    IF i > Len(ConfigureOrder) THEN i
    ELSE IF ConfigureOrder[i] \notin DOMAIN args THEN i
    ELSE IF Requested(ConfigureOrder[i]) THEN i
    ELSE NextStatement(i + 1)

\* the statement this step executes, Len(ConfigureOrder) + 1 when none is left
Statement == NextStatement(cfg_i)

\* on to the statement after the one executed
ConfigureAdvance == cfg_i' = Statement + 1 /\ UNCHANGED <<pc, exc, raised>>

\* Mutant: a setter that raised is passed over and the next statement runs.
general_configure_keep_going ==
    /\ pc = "general_configure"
    /\ \/ /\ Statement > Len(ConfigureOrder)
          /\ cfg_i' = 1
          /\ pc' = "print_settings"
          /\ UNCHANGED <<exc, raised, h, dev, in_queue, log>>
       \/ /\ Statement <= Len(ConfigureOrder)
          /\ ConfigureOrder[Statement] \notin DOMAIN args
          /\ Raise(AttributeError)
          /\ UNCHANGED <<cfg_i, h, dev, in_queue, log>>
       \/ /\ Statement <= Len(ConfigureOrder)
          /\ ConfigureOrder[Statement] \in DOMAIN args
          /\ \E g \in GetOutcomes, w \in SendOutcomes :
                LET r == ApplySetting(Session, ConfigureOrder[Statement], g, w) IN
                /\ Commit(r.s)
                /\ ConfigureAdvance
    /\ UNCHANGED <<client, call, action, args, watchdog, status, sleeps, error_number, exit_code>>

general_configure ==
    /\ pc = "general_configure"
    /\ \/ \* no statement left: general_configure returns, print_settings is next
          /\ Statement > Len(ConfigureOrder)
          /\ cfg_i' = 1
          /\ pc' = "print_settings"
          /\ UNCHANGED <<exc, raised, h, dev, in_queue, log>>
       \/ \* the Namespace has no such attribute: AttributeError, which the
          \* `except (IOError, ValueError)` does not catch
          /\ Statement <= Len(ConfigureOrder)
          /\ ConfigureOrder[Statement] \notin DOMAIN args
          /\ Raise(AttributeError)
          /\ UNCHANGED <<cfg_i, h, dev, in_queue, log>>
       \/ /\ Statement <= Len(ConfigureOrder)
          /\ ConfigureOrder[Statement] \in DOMAIN args
          /\ \E g \in GetOutcomes, w \in SendOutcomes :
                LET r == ApplySetting(Session, ConfigureOrder[Statement], g, w) IN
                /\ Commit(r.s)
                /\ IF r.raised # "none"
                   THEN Raise(USBWatchDogError(1)) /\ UNCHANGED cfg_i
                   ELSE ConfigureAdvance
    /\ UNCHANGED <<client, call, action, args, watchdog, status, sleeps, error_number, exit_code>>

---------------------------------------------------------------------------
(* print_settings(watchdog): one getter per step *)

SettingsOrder ==
    <<"serial_number", "nonvolatile_timeout", "volatile_timeout",
      "nonvolatile_pinglight", "nonvolatile_buzzer", "volatile_pinglight",
      "volatile_buzzer", "nonvolatile_buzzer_frequency",
      "volatile_buzzer_frequency", "nonvolatile_beacon_mode", "reboot_indicator">>

ReadSetting(s, n, g) ==
    CASE n = "serial_number" -> get_serial_number(s, g)
      [] n = "nonvolatile_timeout" -> get_nonvolatile_timeout(s, g)
      [] n = "volatile_timeout" -> get_volatile_timeout(s, g)
      [] n = "nonvolatile_pinglight" -> get_nonvolatile_pinglight(s, g)
      [] n = "nonvolatile_buzzer" -> get_nonvolatile_buzzer(s, g)
      [] n = "volatile_pinglight" -> get_volatile_pinglight(s, g)
      [] n = "volatile_buzzer" -> get_volatile_buzzer(s, g)
      [] n = "nonvolatile_buzzer_frequency" -> get_nonvolatile_buzzer_frequency(s, g)
      [] n = "volatile_buzzer_frequency" -> get_volatile_buzzer_frequency(s, g)
      [] n = "nonvolatile_beacon_mode" -> get_nonvolatile_beacon_mode(s, g)
      [] n = "reboot_indicator" -> get_reboot_indicator(s, g)

\* what the handler does after print_settings returns
AfterSettings ==
    IF action = "configure" THEN Return
    ELSE pc' = "handle_petting" /\ UNCHANGED <<exc, raised>>

print_settings ==
    /\ pc = "print_settings"
    /\ \E g \in GetOutcomes :
          LET r == ReadSetting(Session, SettingsOrder[cfg_i], g) IN
          /\ Commit(r.s)
          /\ IF r.raised # "none"
             THEN Raise(USBWatchDogError(1)) /\ UNCHANGED cfg_i
             ELSE IF cfg_i < Len(SettingsOrder)
             THEN cfg_i' = cfg_i + 1 /\ UNCHANGED <<pc, exc, raised>>
             ELSE cfg_i' = 1 /\ AfterSettings
    /\ UNCHANGED <<client, call, action, args, watchdog, status, sleeps, error_number, exit_code>>

---------------------------------------------------------------------------
(* The handlers that read the status.  A handler takes one step for its    *)
(* get_status() call and one for the checks that follow it.                *)

\* get_status() under `except (IOError, ValueError)`: the handler's status
\* locals are set and the checks are next, or USBWatchDogError(1) is raised
read_status(checks) ==
    \E r1 \in ReadOutcomes, r2 \in ReadOutcomes :
        LET r == get_status(Session, DEFAULT_TIMEOUT, r1, r2) IN
        /\ Commit(r.s)
        /\ IF r.raised # "none"
           THEN Raise(USBWatchDogError(1)) /\ UNCHANGED status
           ELSE status' = Some(r.val) /\ pc' = checks /\ UNCHANGED <<exc, raised>>

\* the checks raise USBWatchDogError(code), or the handler goes on with `after`
status_checks(code, after) ==
    /\ IF code # Unset THEN Raise(USBWatchDogError(code)) ELSE after
    /\ UNCHANGED <<h, dev, in_queue, log, status>>

\* The checks of handle_petting between get_status() and pet(): the error
\* number raised, or Unset when the watchdog is to be pet.
petting_checks(st) ==
    IF st.beacon_mode THEN 1
    ELSE IF st.reboot_indicator /\ args["detect_reboot"] THEN 2
    ELSE IF st.triggered /\ args["detect_triggered"] THEN 3
    ELSE Unset

\* Mutants of the query results: the wrong exit code for triggered, the mode
\* taken from the reboot bit, a beacon handler that does not look at the mode.
triggered_result_as_rebooted(st) == IF st.triggered THEN 2 ELSE Unset
mode_result_from_reboot_bit(st) == IF st.reboot_indicator THEN 2 ELSE 0
beacon_result_unchecked(st) == Unset

\* the error number a query handler raises for a status, Unset when it returns
rebooted_result(st) == IF st.reboot_indicator THEN 2 ELSE Unset
triggered_result(st) == IF st.triggered THEN 3 ELSE Unset
mode_result(st) == IF st.beacon_mode THEN 2 ELSE 0
beacon_result(st) == IF ~st.beacon_mode THEN 1 ELSE Unset

handle_petting ==
    /\ pc = "handle_petting"
    /\ read_status("petting_checks")
    /\ UNCHANGED <<client, call, action, args, cfg_i, watchdog, sleeps, error_number, exit_code>>

handle_petting_checks ==
    /\ pc = "petting_checks"
    /\ status_checks(petting_checks(status[1]), pc' = "pet" /\ UNCHANGED <<exc, raised>>)
    /\ UNCHANGED <<client, call, action, args, cfg_i, watchdog, sleeps, error_number, exit_code>>

\* watchdog.pet(), then back to handle_oneshot_action or to the loop
handle_petting_pet ==
    /\ pc = "pet"
    /\ \E w \in WriteOutcomes :
          LET r == pet(Session, TRUE, w) IN
          /\ Commit(r.s)
          /\ IF r.raised # "none" THEN Raise(USBWatchDogError(1))
             ELSE IF action = "oneshot" THEN Return
             ELSE pc' = "sleep" /\ UNCHANGED <<exc, raised>>
    /\ UNCHANGED <<client, call, action, args, cfg_i, watchdog, status, sleeps, error_number,
                   exit_code>>

\* time.sleep(args.pet_interval), then the next iteration of `while 1`
handle_continuous_sleep ==
    /\ pc = "sleep"
    /\ sleeps < MaxSleeps
    /\ sleeps' = sleeps + 1
    /\ pc' = "handle_petting"
    /\ UNCHANGED <<client, call, action, args, cfg_i, watchdog, h, dev, in_queue, log, status,
                   exc, raised, error_number, exit_code>>

handle_rebooted_action ==
    /\ pc = "handle_rebooted"
    /\ read_status("rebooted_checks")
    /\ UNCHANGED <<client, call, action, args, cfg_i, watchdog, sleeps, error_number, exit_code>>

handle_rebooted_checks ==
    /\ pc = "rebooted_checks"
    /\ status_checks(rebooted_result(status[1]), Return)
    /\ UNCHANGED <<client, call, action, args, cfg_i, watchdog, sleeps, error_number, exit_code>>

handle_triggered_action ==
    /\ pc = "handle_triggered"
    /\ read_status("triggered_checks")
    /\ UNCHANGED <<client, call, action, args, cfg_i, watchdog, sleeps, error_number, exit_code>>

handle_triggered_checks ==
    /\ pc = "triggered_checks"
    /\ status_checks(triggered_result(status[1]), Return)
    /\ UNCHANGED <<client, call, action, args, cfg_i, watchdog, sleeps, error_number, exit_code>>

handle_mode_action ==
    /\ pc = "handle_mode"
    /\ read_status("mode_checks")
    /\ UNCHANGED <<client, call, action, args, cfg_i, watchdog, sleeps, error_number, exit_code>>

\* both branches of the `if beacon_mode` raise
handle_mode_checks ==
    /\ pc = "mode_checks"
    /\ status_checks(mode_result(status[1]), Return)
    /\ UNCHANGED <<client, call, action, args, cfg_i, watchdog, sleeps, error_number, exit_code>>

handle_beacon_action ==
    /\ pc = "handle_beacon"
    /\ read_status("beacon_checks")
    /\ UNCHANGED <<client, call, action, args, cfg_i, watchdog, sleeps, error_number, exit_code>>

handle_beacon_checks ==
    /\ pc = "beacon_checks"
    /\ status_checks(beacon_result(status[1]),
                     pc' = "set_beacon_state" /\ UNCHANGED <<exc, raised>>)
    /\ UNCHANGED <<client, call, action, args, cfg_i, watchdog, sleeps, error_number, exit_code>>

\* watchdog.set_beacon_state(...) of handle_beacon_action
handle_beacon_set ==
    /\ pc = "set_beacon_state"
    /\ \E w \in WriteOutcomes :
          LET r == set_beacon_state(Session, IsOn(args["beacon_state"]), w) IN
          /\ Commit(r.s)
          /\ IF r.raised # "none" THEN Raise(USBWatchDogError(1)) ELSE Return
    /\ UNCHANGED <<client, call, action, args, cfg_i, watchdog, status, sleeps, error_number,
                   exit_code>>

---------------------------------------------------------------------------
(* main() *)

\* watchdog = USBWatchDog(args.serial_number); on IOError/ValueError exit(1)
main_open ==
    /\ pc = "open"
    /\ \/ /\ watchdog' = "obj"
          /\ h' = "open"
          /\ pc' = Dispatch(action)
          /\ UNCHANGED <<exc, raised>>
       \/ /\ Raise(SystemExit(1))
          /\ UNCHANGED <<watchdog, h>>
    /\ UNCHANGED <<client, call, action, args, cfg_i, dev, in_queue, log, status, sleeps,
                   error_number, exit_code>>

\* Ctrl-C while the body of the inner `try` runs
InHandler ==
    pc \in {"open", "general_configure", "print_settings",
            "handle_petting", "petting_checks", "pet", "sleep",
            "handle_rebooted", "rebooted_checks", "handle_triggered",
            "triggered_checks", "handle_mode", "mode_checks",
            "handle_beacon", "beacon_checks", "set_beacon_state"}

interrupt ==
    /\ InHandler
    /\ Raise(KeyboardInterrupt)
    /\ UNCHANGED <<client, call, action, args, cfg_i, watchdog, h, dev, in_queue, log, status,
                   sleeps, error_number, exit_code>>


\* Mutant: an interrupt is taken for a normal end of the handler.
main_except_number_interrupt_ok(e) ==
    CASE e.type = "none" -> 0
      [] e.type = "USBWatchDogError" -> e.error_number
      [] e.type = "KeyboardInterrupt" -> 0
      [] OTHER -> Unset

\* The except/else clauses of main: `except KeyboardInterrupt` re-raises
\* USBWatchDogError(1), `except USBWatchDogError` takes its error_number, `else`
\* sets 0; any other exception stays in flight.
main_except_number(e) ==
    CASE e.type = "none" -> 0
      [] e.type = "USBWatchDogError" -> e.error_number
      [] e.type = "KeyboardInterrupt" -> 1
      [] OTHER -> Unset

main_except ==
    /\ pc = "unwind"
    /\ error_number' = main_except_number(exc)
    /\ exc' = IF exc.type \in {"USBWatchDogError", "KeyboardInterrupt"}
              THEN NoException ELSE exc
    /\ pc' = "finally"
    /\ UNCHANGED <<client, call, action, args, cfg_i, watchdog, h, dev, in_queue, log, status,
                   sleeps, raised, exit_code>>

\* finally: close the watchdog if there is one; exit(1) if closing fails
main_finally ==
    /\ pc = "finally"
    /\ IF watchdog # "None"
       THEN LET r == close(Session) IN
            /\ Commit(r.s)
            /\ exc' = IF r.raised # "none" THEN SystemExit(1) ELSE exc
       ELSE UNCHANGED <<h, dev, in_queue, log, exc>>
    /\ pc' = "exit"
    /\ UNCHANGED <<client, call, action, args, cfg_i, watchdog, status, sleeps, raised,
                   error_number, exit_code>>

\* The exit status: exit(error_number), the argument of a SystemExit in flight,
\* or 1 when the interpreter ends on an uncaught exception.
main_exit_code(e, n) ==
    CASE e.type = "none" -> n
      [] e.type = "SystemExit" -> e.error_number
      [] OTHER -> 1

main_exit ==
    /\ pc = "exit"
    /\ exit_code' = main_exit_code(exc, error_number)
    /\ pc' = "exited"
    /\ UNCHANGED <<client, call, action, args, cfg_i, watchdog, h, dev, in_queue, log, status,
                   sleeps, exc, raised, error_number>>

---------------------------------------------------------------------------
(* The program *)

Next ==
    \/ main_open
    \/ general_configure
    \/ print_settings
    \/ handle_rebooted_action
    \/ handle_rebooted_checks
    \/ handle_triggered_action
    \/ handle_triggered_checks
    \/ handle_mode_action
    \/ handle_mode_checks
    \/ handle_beacon_action
    \/ handle_beacon_checks
    \/ handle_beacon_set
    \/ interrupt
    \/ main_except
    \/ main_finally
    \/ main_exit

Spec == Init /\ [][Next]_vars

\* The program with handle_petting and the loop of handle_continuous_action,
\* which Next leaves out because no invocation reaches them: oneshot and
\* continuous leave general_configure by the AttributeError of
\* args.nonvolatile_beacon_mode or by an earlier failure.
NextWithPetting ==
    \/ Next
    \/ handle_petting
    \/ handle_petting_checks
    \/ handle_petting_pet
    \/ handle_continuous_sleep

SpecWithPetting == Init /\ [][NextWithPetting]_vars

\* handle_petting is never reached
PettingNeverReached == pc \notin {"handle_petting", "petting_checks", "pet", "sleep"}

---------------------------------------------------------------------------
(* A USBWatchDog session used through its public methods by a caller other *)
(* than main().  The caller calls methods of one family, and close(), with  *)
(* arguments of its choice, at most MaxCalls times; a method that raised    *)
(* leaves the session usable.                                               *)

\* At most this many public methods are called on a session.
MaxCalls == 2

SessionClients ==
    {"timeouts", "flags", "frequencies", "serial_number", "indicators", "status"}

\* the arguments tried
TimeoutInputs ==
    {0, 1, UINT8_MAX, UINT8_MAX + 1, 513, UINT16_MAX, UINT16_MAX + 1,
     2 * UINT16_MAX + 7}
FrequencyInputs ==
    {FREQUENCY_MIN - 1, FREQUENCY_MIN, 100, UINT8_MAX, UINT8_MAX + 1}
ReadTimeouts == {DEFAULT_TIMEOUT, DEFAULT_TIMEOUT \div 4}

\* serial numbers: 20 x 'A'; 19 x 'A'; 19 x 'A' and '!'; 19 x 'A' and a
\* newline; the empty string
ValidSerialNumber == [i \in 1..SERIAL_NUMBER_LEN |-> 65]
ShortSerialNumber == SubSeq(ValidSerialNumber, 1, SERIAL_NUMBER_LEN - 1)
SerialNumberInputs ==
    {ValidSerialNumber, ShortSerialNumber, ShortSerialNumber \o <<33>>,
     ShortSerialNumber \o <<10>>, <<>>}

\* an input report with its own counter
StatusReport(flags, counter) == <<IN_WATCHDOG_STATUS, flags>> \o from_uint16(counter)

\* the devices a caller of each family meets
SessionDevices(c) ==
    CASE c = "flags" -> {Device(b, 7 - b, 1, 0) : b \in 0..7}
      [] c = "serial_number" ->
            {Device(1, 2, 1, 0),
             [Device(1, 2, 1, 0) EXCEPT ![FR_SERIAL_NUMBER] = ValidSerialNumber]}
      [] c = "indicators" -> {Device(1, 2, r, b) : r \in {0, 1}, b \in {0, 1}}
      [] OTHER -> {Device(1, 2, 1, 0)}

\* the input reports pending: a stale sample a, then b with another counter
SessionQueues(c) ==
    IF c = "status"
    THEN {<<StatusReport(a, 1027), StatusReport(b, 513),
            StatusReport(b, 513), StatusReport(a, 1027)>> :
              a \in StatusFlags, b \in StatusFlags}
    ELSE {<<InputReport(0), InputReport(0)>>}

InitSession ==
    /\ client \in SessionClients
    /\ action = "none"
    /\ args = [n \in {} |-> None]
    /\ pc = "session"
    /\ cfg_i = 1
    /\ watchdog = "obj"
    /\ h = "open"
    /\ dev \in SessionDevices(client)
    /\ in_queue \in SessionQueues(client)
    /\ log = <<>>
    /\ status = None
    /\ sleeps = 0
    /\ exc = NoException
    /\ raised = NoException
    /\ error_number = Unset
    /\ exit_code = Unset
    /\ call = NoCall

\* the call `name(arg)` with result r
Invoke(name, arg, r) ==
    /\ pc = "session"
    /\ call.n < MaxCalls
    /\ Commit(r.s)
    /\ call' = [name |-> name, arg |-> arg, raised |-> r.raised, msg |-> r.msg,
                val |-> IF r.raised = "none" THEN Some(r.val) ELSE None,
                before |-> Session,
                prev |-> [call EXCEPT !.before = None, !.prev = None],
                n |-> call.n + 1]
    /\ UNCHANGED <<client, action, args, pc, cfg_i, watchdog, status, sleeps, exc,
                   raised, error_number, exit_code>>

call_close ==
    /\ client \in SessionClients
    /\ Invoke("close", None, close(Session))

call_get_version ==
    /\ client = "indicators"
    /\ \E g \in GetOutcomes : Invoke("get_version", None, get_version(Session, g))

call_get_serial_number ==
    /\ client = "serial_number"
    /\ \E g \in GetOutcomes :
          Invoke("get_serial_number", None, get_serial_number(Session, g))

call_set_serial_number ==
    /\ client = "serial_number"
    /\ \E string \in SerialNumberInputs, g \in GetOutcomes, w \in SendOutcomes :
          Invoke("set_serial_number", Some(string),
                 set_serial_number(Session, string, g, w))

call_get_nonvolatile_timeout ==
    /\ client = "timeouts"
    /\ \E g \in GetOutcomes :
          Invoke("get_nonvolatile_timeout", None, get_nonvolatile_timeout(Session, g))

call_set_nonvolatile_timeout ==
    /\ client = "timeouts"
    /\ \E val \in TimeoutInputs, w \in SendOutcomes :
          Invoke("set_nonvolatile_timeout", Some(val),
                 set_nonvolatile_timeout(Session, val, w))

call_get_volatile_timeout ==
    /\ client = "timeouts"
    /\ \E g \in GetOutcomes :
          Invoke("get_volatile_timeout", None, get_volatile_timeout(Session, g))

call_set_volatile_timeout ==
    /\ client = "timeouts"
    /\ \E val \in TimeoutInputs, w \in SendOutcomes :
          Invoke("set_volatile_timeout", Some(val),
                 set_volatile_timeout(Session, val, w))

call_get_nonvolatile_pinglight ==
    /\ client = "flags"
    /\ \E g \in GetOutcomes :
          Invoke("get_nonvolatile_pinglight", None, get_nonvolatile_pinglight(Session, g))

call_set_nonvolatile_pinglight ==
    /\ client = "flags"
    /\ \E val \in BOOLEAN, g \in GetOutcomes, w \in SendOutcomes :
          Invoke("set_nonvolatile_pinglight", Some(val),
                 set_nonvolatile_pinglight(Session, val, g, w))

call_get_nonvolatile_buzzer ==
    /\ client = "flags"
    /\ \E g \in GetOutcomes :
          Invoke("get_nonvolatile_buzzer", None, get_nonvolatile_buzzer(Session, g))

call_set_nonvolatile_buzzer ==
    /\ client = "flags"
    /\ \E val \in BOOLEAN, g \in GetOutcomes, w \in SendOutcomes :
          Invoke("set_nonvolatile_buzzer", Some(val),
                 set_nonvolatile_buzzer(Session, val, g, w))

call_get_volatile_pinglight ==
    /\ client = "flags"
    /\ \E g \in GetOutcomes :
          Invoke("get_volatile_pinglight", None, get_volatile_pinglight(Session, g))

call_set_volatile_pinglight ==
    /\ client = "flags"
    /\ \E val \in BOOLEAN, g \in GetOutcomes, w \in SendOutcomes :
          Invoke("set_volatile_pinglight", Some(val),
                 set_volatile_pinglight(Session, val, g, w))

call_get_volatile_buzzer ==
    /\ client = "flags"
    /\ \E g \in GetOutcomes :
          Invoke("get_volatile_buzzer", None, get_volatile_buzzer(Session, g))

call_set_volatile_buzzer ==
    /\ client = "flags"
    /\ \E val \in BOOLEAN, g \in GetOutcomes, w \in SendOutcomes :
          Invoke("set_volatile_buzzer", Some(val),
                 set_volatile_buzzer(Session, val, g, w))

call_get_nonvolatile_buzzer_frequency ==
    /\ client = "frequencies"
    /\ \E g \in GetOutcomes :
          Invoke("get_nonvolatile_buzzer_frequency", None, get_nonvolatile_buzzer_frequency(Session, g))

call_set_nonvolatile_buzzer_frequency ==
    /\ client = "frequencies"
    /\ \E val \in FrequencyInputs, w \in SendOutcomes :
          Invoke("set_nonvolatile_buzzer_frequency", Some(val),
                 set_nonvolatile_buzzer_frequency(Session, val, w))

call_get_volatile_buzzer_frequency ==
    /\ client = "frequencies"
    /\ \E g \in GetOutcomes :
          Invoke("get_volatile_buzzer_frequency", None, get_volatile_buzzer_frequency(Session, g))

call_set_volatile_buzzer_frequency ==
    /\ client = "frequencies"
    /\ \E val \in FrequencyInputs, w \in SendOutcomes :
          Invoke("set_volatile_buzzer_frequency", Some(val),
                 set_volatile_buzzer_frequency(Session, val, w))

call_get_reboot_indicator ==
    /\ client = "indicators"
    /\ \E g \in GetOutcomes :
          Invoke("get_reboot_indicator", None, get_reboot_indicator(Session, g))

call_set_reboot_indicator ==
    /\ client = "indicators"
    /\ \E w \in SendOutcomes :
          Invoke("set_reboot_indicator", None, set_reboot_indicator(Session, w))

call_get_nonvolatile_beacon_mode ==
    /\ client = "indicators"
    /\ \E g \in GetOutcomes :
          Invoke("get_nonvolatile_beacon_mode", None, get_nonvolatile_beacon_mode(Session, g))

call_set_nonvolatile_beacon_mode ==
    /\ client = "indicators"
    /\ \E val \in BOOLEAN, w \in SendOutcomes :
          Invoke("set_nonvolatile_beacon_mode", Some(val),
                 set_nonvolatile_beacon_mode(Session, val, w))

call_get_status ==
    /\ client = "status"
    /\ \E timeout \in ReadTimeouts, r1 \in ReadOutcomes, r2 \in ReadOutcomes :
          Invoke("get_status", Some(timeout), get_status(Session, timeout, r1, r2))

call_pet ==
    /\ client = "status"
    /\ \E clear_alarm \in BOOLEAN, w \in WriteOutcomes :
          Invoke("pet", Some(clear_alarm), pet(Session, clear_alarm, w))

call_set_beacon_state ==
    /\ client = "status"
    /\ \E triggered \in BOOLEAN, w \in WriteOutcomes :
          Invoke("set_beacon_state", Some(triggered),
                 set_beacon_state(Session, triggered, w))

NextSession ==
    \/ call_close
    \/ call_get_version
    \/ call_get_serial_number
    \/ call_set_serial_number
    \/ call_get_nonvolatile_timeout
    \/ call_set_nonvolatile_timeout
    \/ call_get_volatile_timeout
    \/ call_set_volatile_timeout
    \/ call_get_nonvolatile_pinglight
    \/ call_set_nonvolatile_pinglight
    \/ call_get_nonvolatile_buzzer
    \/ call_set_nonvolatile_buzzer
    \/ call_get_volatile_pinglight
    \/ call_set_volatile_pinglight
    \/ call_get_volatile_buzzer
    \/ call_set_volatile_buzzer
    \/ call_get_nonvolatile_buzzer_frequency
    \/ call_set_nonvolatile_buzzer_frequency
    \/ call_get_volatile_buzzer_frequency
    \/ call_set_volatile_buzzer_frequency
    \/ call_get_reboot_indicator
    \/ call_set_reboot_indicator
    \/ call_get_nonvolatile_beacon_mode
    \/ call_set_nonvolatile_beacon_mode
    \/ call_get_status
    \/ call_pet
    \/ call_set_beacon_state

SpecSession == InitSession /\ [][NextSession]_vars

---------------------------------------------------------------------------
(* What the properties speak of *)

\* the transport calls named `name` issued so far
Calls(name) == {i \in DOMAIN log : log[i].op = name}
\* the transport calls whose answer the session rejected
FailedCalls == {i \in DOMAIN log : ~log[i].ok}
\* every device operation so far succeeded
NoFailure == FailedCalls = {}
Exited == pc = "exited"
Opened == watchdog = "obj"
Interrupted == raised.type = "KeyboardInterrupt"
\* the handle was closed, and the close is the last transport call
ClosedLast == h = "None" /\ log # <<>> /\ log[Len(log)].op = "close"

\* The status sample of the invocation: the one get_status() returned, or, while
\* no status has been read, the one the device has ready as the second report.
HasSample == status # None \/ Len(in_queue) >= 2
Sample == IF status # None THEN status[1] ELSE StatusOf(in_queue[2])

\* A public method has been called on the session by its caller.
Called == call.name # "none"
\* the transport calls the last public method issued
CallLog == SubSeq(log, Len(call.before.log) + 1, Len(log))
\* the sends among them
CallSends == {i \in DOMAIN CallLog : CallLog[i].op = "send_feature_report"}
\* bit number k (0 is the least significant) of a byte
Bit(byte, k) == (byte \div (2 ^ k)) % 2

---------------------------------------------------------------------------
(* The properties *)

\* C1: whenever the device was opened, the transport close is called exactly
\* once before the process exits, whatever ended the handler, and no transport
\* call is issued after the close.
C1_ClosedExactlyOnce ==
    /\ Cardinality(Calls("close")) <= 1
    /\ \A i \in Calls("close") : i = Len(log)
    /\ (Exited /\ Opened) => Cardinality(Calls("close")) = 1

\* C1 witness: an invocation on an opened device that ended by a detection
\* exit, after the close.
C1_Witness ==
    Exited /\ Opened /\ exit_code = 2 /\ Cardinality(Calls("close")) = 1

\* C2: oneshot, when every device operation succeeds, the status sample shows
\* Watchdog mode and no requested detection fires, ends with the status read
\* (two input reads) followed by exactly one pet write, and exits with code 0.
C2_OneshotPetsOnce ==
    (/\ Exited /\ Opened /\ action = "oneshot"
     /\ NoFailure /\ ~Interrupted
     /\ HasSample
     /\ ~Sample.beacon_mode
     /\ ~(Sample.reboot_indicator /\ args["detect_reboot"])
     /\ ~(Sample.triggered /\ args["detect_triggered"]))
    => /\ exit_code = 0
       /\ Cardinality(Calls("write")) = 1
       /\ Cardinality(Calls("read")) = 2
       /\ \A i \in Calls("write") : i > 2 /\ log[i-1].op = "read" /\ log[i-2].op = "read"
       /\ \A i \in Calls("get_feature_report") \cup Calls("send_feature_report") :
             \A j \in Calls("read") : i < j

\* C3: oneshot --detect-reboot against a device in Watchdog mode whose status
\* sample has the reboot indicator set exits with code 2 and writes no pet.
C3_OneshotDetectsReboot ==
    (/\ Exited /\ Opened /\ action = "oneshot"
     /\ args["detect_reboot"]
     /\ NoFailure /\ ~Interrupted
     /\ HasSample
     /\ Sample.reboot_indicator /\ ~Sample.beacon_mode)
    => exit_code = 2 /\ Calls("write") = {}

\* C5: in the beacon action an output report is written only after a status
\* read that showed beacon mode, and when the status read shows Watchdog mode
\* the process exits with code 1 without any output-report write.
C5_BeaconNeedsBeaconMode ==
    action = "beacon" =>
        /\ Calls("write") # {} => (status # None /\ status[1].beacon_mode)
        /\ (status # None /\ ~status[1].beacon_mode) =>
              /\ Calls("write") = {}
              /\ pc \in {"beacon_checks", "unwind", "finally", "exit", "exited"}
              /\ Exited => exit_code = 1

\* C5 witness: beacon on against a device in Watchdog mode has exited.
C5_Witness ==
    /\ Exited /\ action = "beacon" /\ args["beacon_state"] = Some("on")
    /\ status # None /\ ~status[1].beacon_mode
    /\ exit_code = 1

\* C6: mode with a successful status read exits with 2 when the beacon-mode bit
\* is set and with 0 when it is clear, whatever the other bits are, and the
\* handle is closed by then.
C6_ModeExitCode ==
    (Exited /\ action = "mode" /\ status # None /\ ~Interrupted) =>
        /\ exit_code = IF status[1].beacon_mode THEN 2 ELSE 0
        /\ ClosedLast

\* C6 witness: mode answered 0 for a Watchdog-mode sample whose reboot and
\* triggered bits are set.
C6_Witness ==
    /\ Exited /\ action = "mode" /\ status # None
    /\ ~status[1].beacon_mode /\ status[1].reboot_indicator /\ status[1].triggered
    /\ exit_code = 0

\* C7: with a successful status read, rebooted exits with 2 exactly when the
\* reboot indicator is set and triggered exits with 3 exactly when the
\* triggered bit is set; both exit with 0 otherwise, whatever the other bits are.
C7_QueryExitCodes ==
    (Exited /\ status # None /\ ~Interrupted) =>
        /\ action = "rebooted" =>
              exit_code = IF status[1].reboot_indicator THEN 2 ELSE 0
        /\ action = "triggered" =>
              exit_code = IF status[1].triggered THEN 3 ELSE 0

\* C7 witness: triggered answered 3 for a sample in beacon mode without the
\* reboot indicator.
C7_Witness ==
    /\ Exited /\ action = "triggered" /\ status # None
    /\ status[1].triggered /\ status[1].beacon_mode /\ ~status[1].reboot_indicator
    /\ exit_code = 3

\* the exit code the pre-pet checks ask for on the invocation's status sample
RequestedDetection ==
    IF Sample.beacon_mode THEN 1
    ELSE IF Sample.reboot_indicator /\ args["detect_reboot"] THEN 2
    ELSE IF Sample.triggered /\ args["detect_triggered"] THEN 3
    ELSE Unset

\* C8: in continuous every pet write directly follows the two input reads of a
\* status read, and when the status sample shows beacon mode, a requested
\* reboot or a requested trigger, the process exits with code 1, 2 or 3
\* respectively, with no pet write, status read or sleep after that sample.
C8_ContinuousChecksEachIteration ==
    action = "continuous" =>
        /\ \A i \in Calls("write") :
              i > 2 /\ log[i-1].op = "read" /\ log[i-2].op = "read"
        /\ (/\ Exited /\ Opened /\ NoFailure /\ ~Interrupted
            /\ HasSample /\ RequestedDetection # Unset)
           => /\ exit_code = RequestedDetection
              /\ Calls("write") = {}
              /\ Cardinality(Calls("read")) <= 2
              /\ sleeps = 0

\* C9: an interrupt while the handler runs on an opened device ends in exit
\* code 1 with the handle closed, the close being the last transport call.
C9_InterruptClosesAndExitsOne ==
    (Opened /\ Interrupted) =>
        /\ exit_code \in {Unset, 1}
        /\ Exited => (exit_code = 1 /\ ClosedLast)

\* C9 witness: an interrupt arrived after at least one device operation, and the
\* process has exited.
C9_Witness ==
    Exited /\ Opened /\ Interrupted /\ Len(log) >= 2 /\ exit_code = 1

\* C10: after the first failed device operation nothing but the close is issued
\* (no retry, no pet or beacon write after a failed status read), and the
\* process exits with code 1.
C10_FirstFailureEnds ==
    \A i \in FailedCalls :
        /\ \A j \in DOMAIN log : j > i => log[j].op = "close"
        /\ pc \in {"unwind", "finally", "exit", "exited"}
        /\ exit_code \in {Unset, 1}
        /\ Exited => exit_code = 1

\* C10 witness: the second configuration write of an invocation failed after
\* the first one succeeded, and the process has exited.
C10_Witness ==
    /\ Exited
    /\ \E i \in FailedCalls :
          /\ log[i].op = "send_feature_report"
          /\ \E j \in Calls("send_feature_report") : j < i /\ log[j].ok

\* C11: rebooted, triggered and mode issue no transport call but input-report
\* reads and the close (no feature-report write, no output-report write), and
\* configure never writes the output report.
C11_QueriesOnlyRead ==
    /\ action \in {"rebooted", "triggered", "mode"} =>
          \A i \in DOMAIN log : log[i].op \in {"read", "close"}
    /\ action = "configure" => Calls("write") = {}

\* C11 witness: mode has read a status in beacon mode and exited, having issued
\* two reads and the close.
C11_Witness ==
    /\ Exited /\ action = "mode" /\ status # None /\ status[1].beacon_mode
    /\ Len(log) = 3 /\ Cardinality(Calls("read")) = 2

\* C12: get_status issues two consecutive input-report reads of
\* IN_WATCHDOG_STATUS_LEN + 1 bytes with the timeout it was given and nothing
\* else; what it returns is the decode of the second report that was pending
\* (triggered bit 0, reboot bit 1, beacon mode bit 2 of byte 1, the counter
\* little endian in bytes 2 and 3), whatever the first report was; and when a
\* read returns a wrong length (a short report, or nothing on a timeout) it
\* raises and returns no sample.
C12_StatusIsSecondSample ==
    call.name = "get_status" =>
        LET issued == CallLog
            pending == call.before.in_queue
        IN /\ Len(issued) <= 2
           /\ \A i \in DOMAIN issued :
                 /\ issued[i].op = "read"
                 /\ issued[i].data = <<IN_WATCHDOG_STATUS_LEN + 1, call.arg[1]>>
           /\ (\E i \in DOMAIN issued : ~issued[i].ok) => call.raised = "ValueError"
           /\ call.raised = "none" =>
                 /\ Len(issued) = 2
                 /\ Len(pending) >= 2
                 /\ LET second == pending[2]
                        st == call.val[1]
                    IN /\ st.triggered = (Bit(second[2], 0) = 1)
                       /\ st.reboot_indicator = (Bit(second[2], 1) = 1)
                       /\ st.beacon_mode = (Bit(second[2], 2) = 1)
                       /\ st.counter = second[3] + 256 * second[4]
                 /\ in_queue = SubSeq(pending, 3, Len(pending))

\* C12 witness: get_status returned a sample in beacon mode, not triggered,
\* while the first report pending had every status bit the other way round.
C12_Witness ==
    /\ call.name = "get_status" /\ call.raised = "none"
    /\ call.before.in_queue[1][2] = 3 /\ call.before.in_queue[2][2] = 4
    /\ call.val[1].beacon_mode /\ ~call.val[1].triggered

\* the setters of the ping-light and buzzer flags
FlagSetters ==
    {"set_nonvolatile_pinglight", "set_nonvolatile_buzzer",
     "set_volatile_pinglight", "set_volatile_buzzer"}

FrequencySetters ==
    {"set_nonvolatile_buzzer_frequency", "set_volatile_buzzer_frequency"}
FrequencyReport(name) ==
    IF name = "set_nonvolatile_buzzer_frequency"
    THEN FR_NONVOLATILE_BUZZER_FREQUENCY ELSE FR_VOLATILE_BUZZER_FREQUENCY

\* C14: on an open session, set_nonvolatile_buzzer_frequency and
\* set_volatile_buzzer_frequency send the report [id, f] exactly when
\* 42 <= f <= 255; any other f (41 and 256 among them) fails with a
\* ValueError and no feature report is sent.
C14_FrequencyRange ==
    (call.name \in FrequencySetters /\ call.before.h = "open") =>
        LET f == call.arg[1]
        IN IF 42 <= f /\ f <= 255
           THEN /\ Len(CallLog) = 1
                /\ CallLog[1].op = "send_feature_report"
                /\ CallLog[1].data = <<FrequencyReport(call.name), f>>
                /\ call.raised = "none" <=> CallLog[1].ok
           ELSE /\ call.raised = "ValueError"
                /\ CallLog = <<>>

\* the characters a serial number may consist of: letters, digits, '_', '-'
SerialCharacters == (48..57) \cup (65..90) \cup (97..122) \cup {95, 45}

\* C15: when the serial number read from the device is not 20 x '0',
\* set_serial_number fails with 'already set' and sends nothing, whatever the
\* new value is; the serial-number report is sent only when the device holds
\* 20 x '0' and the new value has exactly 20 characters, all of them letters,
\* digits, '_' or '-'.
C15_SerialNumberWriteOnce ==
    (call.name = "set_serial_number" /\ CallLog # <<>> /\ CallLog[1].ok) =>
        LET current == call.before.dev[FR_SERIAL_NUMBER]
            string == call.arg[1]
        IN /\ current # [i \in 1..20 |-> 48] =>
                 /\ call.raised = "ValueError"
                 /\ call.msg = "Serial number is already set"
                 /\ CallSends = {}
           /\ CallSends # {} =>
                 /\ current = [i \in 1..20 |-> 48]
                 /\ Len(string) = 20
                 /\ \A i \in DOMAIN string : string[i] \in SerialCharacters

\* the setters and getters of the timeouts, and the report of each
TimeoutSetters == {"set_nonvolatile_timeout", "set_volatile_timeout"}
TimeoutGetters == {"get_nonvolatile_timeout", "get_volatile_timeout"}
TimeoutReport(name) ==
    IF name \in {"set_nonvolatile_timeout", "get_nonvolatile_timeout"}
    THEN FR_NONVOLATILE_TIMEOUT ELSE FR_VOLATILE_TIMEOUT

\* C16: for every v in 0..65535 the encoder produces two bytes in 0..255, the
\* low byte first, which the decoder takes back to v; for v above 65535 the
\* encoder raises, so that a timeout setter given such a value fails with a
\* ValueError without a transport call; and a timeout getter that follows a
\* successful setter of the same timeout returns the value written.
C16_Uint16RoundTrip ==
    /\ (client = "timeouts" /\ ~Called) =>
          \A v \in 0..65535 :
             /\ ~from_uint16_raises(v)
             /\ Len(from_uint16(v)) = 2
             /\ \A i \in 1..2 : from_uint16(v)[i] \in 0..255
             /\ from_uint16(v)[1] = v % 256
             /\ to_uint16(from_uint16(v)) = v
    /\ call.name \in TimeoutSetters =>
          /\ call.arg[1] > 65535 =>
                /\ from_uint16_raises(call.arg[1])
                /\ call.raised = "ValueError"
                /\ call.msg = "Timeout value is too large"
                /\ CallLog = <<>>
          /\ call.raised = "none" =>
                /\ call.arg[1] <= 65535
                /\ dev[TimeoutReport(call.name)]
                      = <<call.arg[1] % 256, call.arg[1] \div 256>>
    /\ (/\ call.name \in TimeoutGetters /\ call.raised = "none"
        /\ call.prev.name \in TimeoutSetters /\ call.prev.raised = "none"
        /\ TimeoutReport(call.prev.name) = TimeoutReport(call.name))
       => call.val = call.prev.arg

\* C16 witness: get_volatile_timeout returned the 513 (bytes 1, 2) that the
\* set_volatile_timeout before it wrote.
C16_Witness ==
    /\ call.name = "get_volatile_timeout" /\ call.raised = "none"
    /\ call.prev.name = "set_volatile_timeout" /\ call.prev.raised = "none"
    /\ call.prev.arg = Some(513)
    /\ call.val = Some(513)
    /\ dev[FR_VOLATILE_TIMEOUT] = <<1, 2>>

\* C17: on an open session pet(clear_alarm) writes one output report
\* [OUT_PET_WATCHDOG, flags] whose bit 0 (timeout acknowledge) is set for every
\* argument and whose bit 1 (clear alarm) is set exactly when clear_alarm is
\* true, and it raises exactly when the transport reports a written length
\* other than 2.
C17_PetFlags ==
    (call.name = "pet" /\ call.before.h = "open") =>
        /\ Len(CallLog) = 1
        /\ CallLog[1].op = "write"
        /\ Len(CallLog[1].data) = 2
        /\ CallLog[1].data[1] = OUT_PET_WATCHDOG
        /\ Bit(CallLog[1].data[2], 0) = 1
        /\ Bit(CallLog[1].data[2], 1) = (IF call.arg[1] THEN 1 ELSE 0)
        /\ call.raised # "none" <=> ~CallLog[1].ok

\* C18: on a session that was closed, every public method, close included,
\* fails with 'not open' without a transport call, and the handle stays
\* released.
C18_ClosedSessionNotOpen ==
    (Called /\ call.before.h = "None") =>
        /\ call.raised = "IOError"
        /\ call.msg = "USB Watchdog not open"
        /\ CallLog = <<>>
        /\ h = "None"

\* what a typed setter raises when it rejects its argument
Rejections ==
    {"Timeout value is too large", "Frequency value is too large",
     "Serial number is already set", "Serial number must be alphanumeric",
     "Serial number must be characters long"}

\* C19: when a typed setter rejects its argument (a timeout above 65535, a
\* frequency it refuses, a serial number of wrong length or with invalid
\* characters, a serial number already set), that call has issued no
\* send_feature_report and the device's feature reports are what they were.
C19_RejectedSetterSendsNothing ==
    /\ (Called /\ call.msg \in Rejections) =>
          /\ call.raised = "ValueError"
          /\ CallSends = {}
          /\ dev = call.before.dev
    /\ (call.name \in TimeoutSetters /\ call.arg[1] > 65535) =>
          call.msg \in Rejections
    /\ (call.name \in FrequencySetters /\ call.arg[1] > 255) =>
          call.msg \in Rejections
    /\ (/\ call.name = "set_serial_number" /\ CallLog # <<>> /\ CallLog[1].ok
        /\ \/ call.before.dev[FR_SERIAL_NUMBER] # [i \in 1..20 |-> 48]
           \/ Len(call.arg[1]) # 20
           \/ \E i \in 1..(Len(call.arg[1]) - 1) :
                 call.arg[1][i] \notin SerialCharacters)
       => call.msg \in Rejections

\* C19 witness: set_nonvolatile_timeout(65536) was rejected after a successful
\* set_nonvolatile_timeout(513), and the device still holds 513.
C19_Witness ==
    /\ call.name = "set_nonvolatile_timeout" /\ call.arg = Some(65536)
    /\ call.msg = "Timeout value is too large"
    /\ call.prev.name = "set_nonvolatile_timeout" /\ call.prev.raised = "none"
    /\ call.prev.arg = Some(513)
    /\ dev[FR_NONVOLATILE_TIMEOUT] = <<1, 2>>

\* C20: continuous on an opened device, while every device operation succeeds,
\* the status sample shows Watchdog mode with no requested detection and no
\* interrupt arrives, never terminates (it goes on petting, sleeping and
\* reading the status), so that it never exits, with code 0 or any other.
C20_ContinuousNeverEnds ==
    (/\ action = "continuous" /\ Opened
     /\ NoFailure /\ ~Interrupted
     /\ HasSample /\ RequestedDetection = Unset)
    => /\ pc \notin {"unwind", "finally", "exit", "exited"}
       /\ exit_code = Unset

\* C21: the checks before the pet have a fixed priority on the one status
\* sample of an oneshot or continuous invocation: beacon mode gives exit code 1
\* whatever the other bits are; else a set reboot indicator with --detect-reboot
\* gives 2, also when the triggered bit is set and --detect-triggered passed;
\* else a set triggered bit with --detect-triggered gives 3; and a set reboot
\* or triggered bit whose detect flag was not passed leaves the pet to be
\* written.
C21_PrePetPriority ==
    (/\ action \in {"oneshot", "continuous"}
     /\ Exited /\ Opened /\ NoFailure /\ ~Interrupted
     /\ HasSample)
    => LET beacon == Sample.beacon_mode
           reboot == Sample.reboot_indicator /\ args["detect_reboot"]
           trigger == Sample.triggered /\ args["detect_triggered"]
       IN /\ beacon => exit_code = 1
          /\ (~beacon /\ reboot) => exit_code = 2
          /\ (~beacon /\ ~reboot /\ trigger) => exit_code = 3
          /\ (~beacon /\ ~reboot /\ ~trigger) => Calls("write") # {}

\* the settings of the command line that general_configure is asked to write,
\* in the order of its statements
RequestedSettings ==
    SelectSeq(ConfigureOrder, LAMBDA n : n \in DOMAIN args /\ Requested(n))
\* the feature report the setter of setting n sends on an open session
WrittenReport(n) ==
    LET r == ApplySetting([Session EXCEPT !.h = "open", !.log = <<>>], n,
                          "exact", "sent")
    IN r.s.log[Len(r.s.log)].data[1]
\* the feature-report calls (writes, and the reads of settings) issued so far
FeatureCalls == Calls("send_feature_report") \cup Calls("get_feature_report")

\* C22: in oneshot and continuous no feature-report call comes after an input
\* read, and an invocation that ran undisturbed has issued every requested
\* configuration write and the reads of all settings; so with
\* --clear-reboot-indicator and --detect-reboot both passed the reboot
\* indicator report has been written, before any status read.
C22_ConfigurationBeforeStatus ==
    action \in {"oneshot", "continuous"} =>
        /\ \A i \in FeatureCalls : \A j \in Calls("read") : i < j
        /\ (Exited /\ Opened /\ NoFailure /\ ~Interrupted) =>
              /\ \A k \in DOMAIN RequestedSettings :
                    \E i \in Calls("send_feature_report") :
                        log[i].data[1] = WrittenReport(RequestedSettings[k])
              /\ Cardinality(Calls("get_feature_report")) >= Len(SettingsOrder)
              /\ (args["clear_reboot_indicator"] /\ args["detect_reboot"]) =>
                    \E i \in Calls("send_feature_report") :
                        /\ log[i].data[1] = FR_REBOOT_INDICATOR
                        /\ \A j \in Calls("read") : i < j

\* the order of the configuration writes, by the argument that requests each
WriteOrder ==
    <<"nonvolatile_timeout", "timeout", "nonvolatile_pinglight", "pinglight",
      "nonvolatile_buzzer", "buzzer", "nonvolatile_buzzer_frequency",
      "buzzer_frequency", "nonvolatile_beacon_mode", "clear_reboot_indicator">>
\* the settings present in the delta, in that order
Delta ==
    SelectSeq(WriteOrder,
              LAMBDA n : /\ n \in DOMAIN args
                         /\ IF n = "clear_reboot_indicator" THEN args[n]
                            ELSE args[n] # None)
\* the feature-report writes issued so far, oldest first
Writes == SelectSeq(log, LAMBDA c : c.op = "send_feature_report")
\* report `array` is the write that setting n of the delta asks for
WritesSetting(array, n) ==
    CASE n = "nonvolatile_timeout" ->
            array = <<FR_NONVOLATILE_TIMEOUT, args[n][1] % 256, args[n][1] \div 256>>
      [] n = "timeout" ->
            array = <<FR_VOLATILE_TIMEOUT, args[n][1] % 256, args[n][1] \div 256>>
      [] n = "nonvolatile_pinglight" ->
            /\ array[1] = FR_NONVOLATILE_PINGLIGHT_BUZZER /\ Len(array) = 2
            /\ Bit(array[2], 0) = IF args[n] = Some("on") THEN 1 ELSE 0
      [] n = "pinglight" ->
            /\ array[1] = FR_VOLATILE_PINGLIGHT_BUZZER /\ Len(array) = 2
            /\ Bit(array[2], 0) = IF args[n] = Some("on") THEN 1 ELSE 0
      [] n = "nonvolatile_buzzer" ->
            /\ array[1] = FR_NONVOLATILE_PINGLIGHT_BUZZER /\ Len(array) = 2
            /\ Bit(array[2], 1) = IF args[n] = Some("on") THEN 1 ELSE 0
      [] n = "buzzer" ->
            /\ array[1] = FR_VOLATILE_PINGLIGHT_BUZZER /\ Len(array) = 2
            /\ Bit(array[2], 1) = IF args[n] = Some("on") THEN 1 ELSE 0
      [] n = "nonvolatile_buzzer_frequency" ->
            array = <<FR_NONVOLATILE_BUZZER_FREQUENCY, args[n][1]>>
      [] n = "buzzer_frequency" ->
            array = <<FR_VOLATILE_BUZZER_FREQUENCY, args[n][1]>>
      [] n = "nonvolatile_beacon_mode" ->
            array = <<FR_NONVOLATILE_BEACON_MODE, IF args[n] = Some("on") THEN 1 ELSE 0>>
      [] n = "clear_reboot_indicator" -> array = <<FR_REBOOT_INDICATOR, 1>>
\* transport call i was issued by general_configure: a write, or the read of
\* the flags byte by a ping-light or buzzer setter (the reads of print_settings
\* come after every write of the delta)
ByConfigure(i) ==
    \/ log[i].op = "send_feature_report"
    \/ /\ log[i].op = "get_feature_report"
       /\ Cardinality({j \in Calls("send_feature_report") : j < i}) < Len(Delta)
\* the accepted write j is the last accepted one of its report
LastWriteOfReport(j) ==
    \A m \in Calls("send_feature_report") :
        (m > j /\ log[m].ok) => log[m].data[1] # log[j].data[1]

\* C23: the feature-report writes of an invocation are, in this order, the
\* writes of the first settings of the delta taken in the fixed order, and no
\* others; configure left undisturbed issues them all; and when a call of the
\* k-th requested write fails, what the writes before it sent is what the
\* device holds, no later write and no read of a setting is issued (only the
\* close), and the exit code is 1.
C23_ConfigureInOrderUntilFailure ==
    action \in {"configure", "oneshot", "continuous"} =>
        /\ Len(Writes) <= Len(Delta)
        /\ \A k \in DOMAIN Writes : WritesSetting(Writes[k].data, Delta[k])
        /\ (action = "configure" /\ Exited /\ Opened /\ NoFailure /\ ~Interrupted)
              => Len(Writes) = Len(Delta)
        /\ \A i \in FailedCalls :
              ByConfigure(i) =>
                /\ \A j \in DOMAIN log : j > i => log[j].op = "close"
                /\ \A j \in Calls("send_feature_report") :
                      (j < i /\ log[j].ok /\ LastWriteOfReport(j))
                         => dev[log[j].data[1]] = Tail(log[j].data)
                /\ Cardinality(Calls("get_feature_report"))
                      <= Cardinality({k \in DOMAIN Delta :
                            Delta[k] \in {"nonvolatile_pinglight", "pinglight",
                                          "nonvolatile_buzzer", "buzzer"}})
                /\ exit_code \in {Unset, 1}
                /\ Exited => exit_code = 1

\* C23 witness: configure with two settings requested has exited with code 1
\* after its second write failed; the first write changed the device, which
\* holds its value, and the second report is as it was.
C23_Witness ==
    /\ action = "configure" /\ Exited /\ exit_code = 1
    /\ Len(Delta) = 2 /\ Len(Writes) = 2
    /\ Writes[1].ok /\ ~Writes[2].ok
    /\ Writes[1].data[1] # Writes[2].data[1]
    /\ dev[Writes[1].data[1]] = Tail(Writes[1].data)
    /\ dev[Writes[1].data[1]] # Device(1, 2, 1, 0)[Writes[1].data[1]]
    /\ dev[Writes[2].data[1]] = Device(1, 2, 1, 0)[Writes[2].data[1]]
    /\ Calls("get_feature_report") = {}

===========================================================================
